---- MODULE Spec2Model ----
(***************************************************************************)
(* Model of the STPS helper scripts.                                       *)
(*                                                                         *)
(*   duckdb_helpers.py   _find_extension_binary, get_duckdb_connection,    *)
(*                       get_extension_version, check_extension_installed  *)
(*   test-extension.py   test_extension (the smoke-test script)            *)
(*                                                                         *)
(* The program keeps no state of its own: what it reads is the extension   *)
(* directory ~/.duckdb/extensions/stps, which an install step outside the  *)
(* program creates and changes.  The directory is therefore the state of   *)
(* the model, and the values the helpers return are recorded next to it.   *)
(*                                                                         *)
(* A file name is the sequence of its code points, so that the order of    *)
(* names is the order Python's str comparison computes.                    *)
(***************************************************************************)
EXTENDS Integers, Sequences, FiniteSets, TLC

\* ------------------------------------------------------------------------
\* Names
\* ------------------------------------------------------------------------
V1_9_0 == <<118, 49, 46, 57, 46, 48>>          \* "v1.9.0"
V1_10_0 == <<118, 49, 46, 49, 48, 46, 48>>      \* "v1.10.0"
V2_0_0 == <<118, 50, 46, 48, 46, 48>>          \* "v2.0.0"
V1_4_3 == <<118, 49, 46, 52, 46, 51>>          \* "v1.4.3"
BUILD == <<98, 117, 105, 108, 100>>           \* "build"

\* The names an entry of the base directory can have in the model.
Names == {V1_9_0, V1_10_0, V2_0_0, V1_4_3, BUILD}

\* At most this many entries exist in the base directory at a time.
MaxEntries == 3

ARTIFACT == "stps.duckdb_extension"
FALLBACK_TAG == V1_4_3

None == [kind |-> "none"]
NoCall == [kind |-> "nocall"]
\* trace.listed: iterdir() was called; trace.probed: the tags whose artifact
\* path was tested with exists(), in order.
NoTrace == [fresh |-> FALSE, listed |-> FALSE, probed |-> <<>>]

\* ------------------------------------------------------------------------
\* State
\* ------------------------------------------------------------------------
VARIABLES
    fs,         \* the extension base directory
    found,      \* what the last _find_extension_binary call gave its caller
    trace,      \* the reads that call made, while fs is unchanged since
    installed,  \* outcome of check_extension_installed on the current fs
    version,    \* outcome of get_extension_version on the current fs
    conn,       \* outcome of get_duckdb_connection on the current fs
    pc, idx, passed, failed, report, status   \* the smoke-test script

vars == <<fs, found, trace, installed, version, conn,
          pc, idx, passed, failed, report, status>>

helperVars == <<installed, version, conn>>
smokeVars == <<pc, idx, passed, failed, report, status>>

\* An entry of the base directory: absent, a plain file, or a directory.
\* A directory has an artifact entry (absent, a file or itself a directory)
\* and is searchable (open) or not; a stat inside a directory that is not
\* searchable fails with EACCES.
NoEntry == [kind |-> "absent", art |-> "absent", open |-> TRUE]
FileEntry == [kind |-> "file",   art |-> "absent", open |-> TRUE]
DirEntry(a, o) == [kind |-> "dir", art |-> a, open |-> o]

ArtKinds == {"absent", "file", "dir"}

\* access of the base directory: "ok", or "noread" when listing it fails
\* (permission denied).
Access == {"ok", "noread"}

\* What Path.exists() does with a stat that fails: pathlib raises the
\* OSError or suppresses it and answers False, depending on the errno and
\* on the Python version (from 3.14 on every OSError is suppressed).
StatFailure == {"raises", "suppresses"}

EmptyKids == [n \in Names |-> NoEntry]
AbsentBase ==
    [base |-> "absent", access |-> "ok", stat |-> "raises",
     kids |-> EmptyKids]

Entries(f) == {n \in Names : f.kids[n].kind # "absent"}

\* ------------------------------------------------------------------------
\* pathlib
\* ------------------------------------------------------------------------
\* extensions_base / tag / 'stps.duckdb_extension'
Join(dir, file) == [kind |-> "path", dir |-> dir, file |-> file]

\* ext_path.parent.name
ParentName(p) == p.dir

\* d.name.startswith('v')
StartsWithV(n) == Len(n) >= 1 /\ n[1] = 118

\* Python's str "<": compare code point by code point, a proper prefix is
\* the lesser string.
RECURSIVE StrLess(_, _)
StrLess(a, b) ==
    IF b = <<>> THEN FALSE
    ELSE IF a = <<>> THEN TRUE
    ELSE IF Head(a) # Head(b) THEN Head(a) < Head(b)
    ELSE StrLess(Tail(a), Tail(b))

\* PurePath.__lt__ on two children of the same parent: the parts agree up
\* to the last one, so the names decide.
PathLess(a, b) == StrLess(a, b)

\* Faulty variant: the sort without reverse=True.
RECURSIVE SortForward(_)
SortForward(S) ==
    IF S = {} THEN <<>>
    ELSE LET m == CHOOSE x \in S : \A y \in S \ {x} : PathLess(x, y)
         IN  <<m>> \o SortForward(S \ {m})

\* list.sort(reverse=True) over paths with distinct names.
RECURSIVE SortReverse(_)
SortReverse(S) ==
    IF S = {} THEN <<>>
    ELSE LET m == CHOOSE x \in S : \A y \in S \ {x} : PathLess(y, x)
         IN  <<m>> \o SortReverse(S \ {m})

\* Path.exists() of base/dir/file: "yes", "no", or "error" when the stat
\* fails and pathlib raises the OSError.
PathExists(f, p) ==
    IF f.base = "absent" THEN "no"
    ELSE IF f.kids[p.dir].kind # "dir" THEN "no"
    ELSE IF ~f.kids[p.dir].open
    THEN (IF f.stat = "raises" THEN "error" ELSE "no")
    ELSE IF f.kids[p.dir].art = "absent" THEN "no"
    ELSE "yes"

\* ------------------------------------------------------------------------
\* _find_extension_binary
\* ------------------------------------------------------------------------
\* The loop over the sorted version directories; probed is the sequence of
\* tags whose artifact path has been tested so far.
RECURSIVE Walk(_, _, _)
Walk(f, dirs, probed) ==
    IF dirs = <<>>
    THEN [kind |-> "none", listed |-> TRUE, probed |-> probed]
    ELSE LET d == Head(dirs)
             ext_path == Join(d, ARTIFACT)
             e == PathExists(f, ext_path)
             p2 == Append(probed, d)
         IN  IF e = "error"
             THEN [kind |-> "error", listed |-> TRUE, probed |-> p2]
             ELSE IF e = "yes"
             THEN [kind |-> "path", dir |-> ext_path.dir,
                   file |-> ext_path.file, listed |-> TRUE, probed |-> p2]
             ELSE Walk(f, Tail(dirs), p2)

\* Faulty variant: the filter without the name test.
VersionDirs_AnyDir(f) ==
    {d \in Entries(f) : f.kids[d].kind = "dir"}

\* The list comprehension over iterdir().
VersionDirs(f) ==
    {d \in Entries(f) : f.kids[d].kind = "dir" /\ StartsWithV(d)}

\* Faulty variant: no test that the base directory exists; iterdir() raises.
FindExtensionBinary_NoExistsCheck(f) ==
    IF f.base = "absent" \/ f.access = "noread"
    THEN [kind |-> "error", listed |-> TRUE, probed |-> <<>>]
    ELSE IF VersionDirs(f) = {}
    THEN [kind |-> "none", listed |-> TRUE, probed |-> <<>>]
    ELSE Walk(f, SortReverse(VersionDirs(f)), <<>>)

\* Faulty variant: a path once found is kept and returned again.
FindExtensionBinary_Cached(f) ==
    IF found.kind = "path"
    THEN [kind |-> "path", dir |-> found.dir, file |-> found.file,
          listed |-> FALSE, probed |-> <<>>]
    ELSE IF f.base = "absent"
    THEN [kind |-> "none", listed |-> FALSE, probed |-> <<>>]
    ELSE IF f.access = "noread"
    THEN [kind |-> "error", listed |-> TRUE, probed |-> <<>>]
    ELSE IF VersionDirs(f) = {}
    THEN [kind |-> "none", listed |-> TRUE, probed |-> <<>>]
    ELSE Walk(f, SortReverse(VersionDirs(f)), <<>>)

FindExtensionBinary(f) ==
    IF f.base = "absent"
    THEN [kind |-> "none", listed |-> FALSE, probed |-> <<>>]
    ELSE IF f.access = "noread"
    THEN [kind |-> "error", listed |-> TRUE, probed |-> <<>>]
    ELSE IF VersionDirs(f) = {}
    THEN [kind |-> "none", listed |-> TRUE, probed |-> <<>>]
    ELSE Walk(f, SortReverse(VersionDirs(f)), <<>>)

\* What the caller gets: a path, None, or the raised OSError.
Result(r) ==
    IF r.kind = "path" THEN Join(r.dir, r.file)
    ELSE [kind |-> r.kind]

\* ------------------------------------------------------------------------
\* The install step outside the program: it creates, fills and removes the
\* base directory and its entries.  Every change makes the recorded reads
\* and helper outcomes stale; the value the resolver returned stays with
\* its caller.
\* ------------------------------------------------------------------------
Change(f2) ==
    /\ fs' = f2
    /\ trace' = NoTrace
    /\ installed' = NoCall /\ version' = NoCall /\ conn' = NoCall
    /\ UNCHANGED <<found, smokeVars>>

WithKid(f, n, e) == [f EXCEPT !.kids[n] = e]

MkBase ==
    /\ fs.base = "absent"
    /\ Change([fs EXCEPT !.base = "dir"])

RmBase ==
    /\ fs.base = "dir"
    /\ Change([AbsentBase EXCEPT !.stat = fs.stat])

CreateEntry ==
    /\ fs.base = "dir"
    /\ Cardinality(Entries(fs)) < MaxEntries
    /\ \E n \in Names \ Entries(fs) :
       \E e \in {FileEntry, DirEntry("absent", TRUE)} :
          Change(WithKid(fs, n, e))

RemoveEntry ==
    \E n \in Entries(fs) : Change(WithKid(fs, n, NoEntry))

PutArtifact ==
    \E n \in Entries(fs) :
       /\ fs.kids[n].kind = "dir"
       /\ fs.kids[n].art = "absent"
       /\ \E a \in {"file", "dir"} :
             Change(WithKid(fs, n, [fs.kids[n] EXCEPT !.art = a]))

RemoveArtifact ==
    \E n \in Entries(fs) :
       /\ fs.kids[n].kind = "dir"
       /\ fs.kids[n].art # "absent"
       /\ Change(WithKid(fs, n, [fs.kids[n] EXCEPT !.art = "absent"]))

\* Permission changes: the reads of the resolver can fail afterwards.
ChmodBase ==
    /\ fs.base = "dir"
    /\ \E a \in Access \ {fs.access} : Change([fs EXCEPT !.access = a])

ChmodDir ==
    \E n \in Entries(fs) :
       /\ fs.kids[n].kind = "dir"
       /\ Change(WithKid(fs, n, [fs.kids[n] EXCEPT !.open = ~@]))

\* ------------------------------------------------------------------------
\* A call of _find_extension_binary(extensions_base)
\* ------------------------------------------------------------------------
Resolve ==
    LET r == FindExtensionBinary(fs) IN
    /\ found' = Result(r)
    /\ trace' = [fresh |-> TRUE, listed |-> r.listed, probed |-> r.probed]
    /\ UNCHANGED <<fs, helperVars, smokeVars>>

\* ------------------------------------------------------------------------
\* check_extension_installed()
\* ------------------------------------------------------------------------
Bool(b) == [kind |-> "bool", value |-> b]

CheckExtensionInstalledResult(f) ==
    LET r == Result(FindExtensionBinary(f)) IN
    IF r.kind = "error" THEN [kind |-> "error"]
    ELSE Bool(r # None)

CheckExtensionInstalled ==
    /\ installed' = CheckExtensionInstalledResult(fs)
    /\ UNCHANGED <<fs, found, trace, version, conn, smokeVars>>

\* ------------------------------------------------------------------------
\* get_extension_version()
\* ------------------------------------------------------------------------
\* Faulty variant: the hard-coded common version instead of the one found.
GetExtensionVersionResult_HardCoded(f) ==
    LET ext_path == Result(FindExtensionBinary(f)) IN
    IF ext_path.kind = "error" THEN [kind |-> "error"]
    ELSE IF ext_path.kind = "path"
    THEN [kind |-> "str", value |-> FALLBACK_TAG]
    ELSE None

GetExtensionVersionResult(f) ==
    LET ext_path == Result(FindExtensionBinary(f)) IN
    IF ext_path.kind = "error" THEN [kind |-> "error"]
    ELSE IF ext_path.kind = "path"
    THEN [kind |-> "str", value |-> ParentName(ext_path)]
    ELSE None

GetExtensionVersion ==
    /\ version' = GetExtensionVersionResult(fs)
    /\ UNCHANGED <<fs, found, trace, installed, conn, smokeVars>>

\* ------------------------------------------------------------------------
\* get_duckdb_connection()
\* ------------------------------------------------------------------------
\* The handle duckdb.connect() returns is "conn" as in the code; NoHandle
\* stands for "nothing returned".  drv is what the driver answers to the
\* LOAD: "ok", "IOException" or another "error".
NoHandle == "no connection"
DriverAnswers == {"ok", "IOException", "error"}

Raised(kind, loads, msg, drv) ==
    [kind |-> kind, loads |-> loads, msg |-> msg, handle |-> NoHandle,
     drv |-> drv]

Load(c, ext_path, drv) ==
    LET loads == <<[on |-> c, path |-> ext_path]>> IN
    IF drv = "IOException"
    THEN Raised("IOException", loads, ext_path, drv)
    ELSE IF drv = "error"
    THEN Raised("DriverError", loads, None, drv)
    ELSE [kind |-> "returned", loads |-> loads, msg |-> None,
          handle |-> c, drv |-> drv]

\* Faulty variant: the fallback path is loaded without the test that it exists.
GetDuckdbConnectionResult_BlindFallback(f, drv) ==
    LET c == "conn"
        r == Result(FindExtensionBinary(f))
    IN  IF r.kind = "error" THEN Raised("OSError", <<>>, None, "none")
        ELSE IF r = None
        THEN Load(c, Join(FALLBACK_TAG, ARTIFACT), drv)
        ELSE Load(c, r, drv)

\* Faulty variant: a rejected LOAD is reported and the connection returned anyway.
GetDuckdbConnectionResult_LoadErrorIgnored(f, drv) ==
    LET c == "conn"
        r == Result(FindExtensionBinary(f))
        fallback == Join(FALLBACK_TAG, ARTIFACT)
        e == PathExists(f, fallback)
    IN  IF r.kind = "error" THEN Raised("OSError", <<>>, None, "none")
        ELSE IF r = None /\ e = "error"
        THEN Raised("OSError", <<>>, None, "none")
        ELSE IF r = None /\ e = "no"
        THEN Raised("FileNotFoundError", <<>>, fallback, "none")
        ELSE LET ext_path == IF r = None THEN fallback ELSE r IN
             [kind |-> "returned",
              loads |-> <<[on |-> c, path |-> ext_path]>>,
              msg |-> None, handle |-> c, drv |-> drv]

GetDuckdbConnectionResult(f, drv) ==
    LET c == "conn"
        r == Result(FindExtensionBinary(f))
        fallback == Join(FALLBACK_TAG, ARTIFACT)
        e == PathExists(f, fallback)
    IN  IF r.kind = "error" THEN Raised("OSError", <<>>, None, "none")
        ELSE IF r = None /\ e = "error"
        THEN Raised("OSError", <<>>, None, "none")
        ELSE IF r = None /\ e = "no"
        THEN Raised("FileNotFoundError", <<>>, fallback, "none")
        ELSE Load(c, IF r = None THEN fallback ELSE r, drv)

GetDuckdbConnection ==
    \E drv \in DriverAnswers :
       /\ conn' = GetDuckdbConnectionResult(fs, drv)
       /\ UNCHANGED <<fs, found, trace, installed, version, smokeVars>>

\* ------------------------------------------------------------------------
\* test-extension.py
\* ------------------------------------------------------------------------
\* Python values are written as their repr; NoExpectation is expected=None.
NoExpectation == "None"

Tests == <<
    [name |-> "IBAN Validierung", expected |-> "True"],
    [name |-> "String Upper",     expected |-> "'HELLO WORLD'"],
    [name |-> "String Lower",     expected |-> "'hello world'"],
    [name |-> "UUID Generierung", expected |-> NoExpectation] >>

\* What a query can give: a row value, or an exception.
QueryValues == {"True", "False", "'HELLO WORLD'", "'hello world'",
                "'0b5c7f0e-uuid'", "''", "None"}
RAISES == "raises"

Truthy(v) == v \notin {"False", "''", "None"}

Verdict(test, r) ==
    IF r = RAISES THEN "ERROR"
    ELSE IF test.expected = NoExpectation
    THEN (IF Truthy(r) THEN "PASSED" ELSE "FAILED")
    ELSE IF r = test.expected THEN "PASSED"
    ELSE "FAILED"

\* Faulty variant: a query that raises is reported but not counted.
Tally_ErrorDropped(v, p, f) ==
    IF v = "PASSED" THEN <<p + 1, f>>
    ELSE IF v = "FAILED" THEN <<p, f + 1>>
    ELSE <<p, f>>

\* passed += 1 / failed += 1
Tally(v, p, f) ==
    IF v = "PASSED" THEN <<p + 1, f>> ELSE <<p, f + 1>>

SmokeUnchanged == UNCHANGED <<fs, found, trace, helperVars>>

\* os.path.exists(extension_path)
SmokeStart ==
    /\ pc = "idle"
    /\ \E exists \in BOOLEAN :
          IF exists
          THEN pc' = "load" /\ status' = status
          ELSE pc' = "exited" /\ status' = 1
    /\ UNCHANGED <<idx, passed, failed, report>>
    /\ SmokeUnchanged

\* duckdb.connect, SELECT version(), LOAD
SmokeLoad ==
    /\ pc = "load"
    /\ \E answer \in {"ok", "connect raises", "load raises"} :
          IF answer = "ok"
          THEN pc' = "tests" /\ status' = status
          ELSE pc' = "exited" /\ status' = 1
    /\ UNCHANGED <<idx, passed, failed, report>>
    /\ SmokeUnchanged

\* one turn of the loop over tests
SmokeTest ==
    /\ pc = "tests"
    /\ idx < Len(Tests)
    /\ \E r \in QueryValues \cup {RAISES} :
          LET v == Verdict(Tests[idx + 1], r)
              t == Tally(v, passed, failed)
          IN  /\ report' = Append(report, v)
              /\ passed' = t[1]
              /\ failed' = t[2]
    /\ idx' = idx + 1
    /\ UNCHANGED <<pc, status>>
    /\ SmokeUnchanged

\* the listing of the stps_ functions; its outcome changes no counter
SmokeListFunctions ==
    /\ pc = "tests"
    /\ idx = Len(Tests)
    /\ \E answer \in {"some", "none", "raises"} : pc' = "summary"
    /\ UNCHANGED <<idx, passed, failed, report, status>>
    /\ SmokeUnchanged

\* the summary and the return value
SmokeSummary ==
    /\ pc = "summary"
    /\ IF passed + failed = 0
       THEN pc' = "exited" /\ status' = 1
       ELSE pc' = "returned" /\ status' = (IF failed = 0 THEN 0 ELSE 1)
    /\ UNCHANGED <<idx, passed, failed, report>>
    /\ SmokeUnchanged

Init ==
    /\ fs = AbsentBase
    /\ found = NoCall
    /\ trace = NoTrace
    /\ installed = NoCall /\ version = NoCall /\ conn = NoCall
    /\ pc = "idle" /\ idx = 0 /\ passed = 0 /\ failed = 0
    /\ report = <<>> /\ status = -1

\* The resolver on a directory whose reads succeed.
Next ==
    \/ MkBase
    \/ RmBase
    \/ CreateEntry
    \/ RemoveEntry
    \/ PutArtifact
    \/ RemoveArtifact
    \/ Resolve

Spec == Init /\ [][Next]_vars

\* The resolver on a directory whose reads can fail.
InitIO ==
    /\ \E m \in StatFailure : fs = [AbsentBase EXCEPT !.stat = m]
    /\ found = NoCall
    /\ trace = NoTrace
    /\ installed = NoCall /\ version = NoCall /\ conn = NoCall
    /\ pc = "idle" /\ idx = 0 /\ passed = 0 /\ failed = 0
    /\ report = <<>> /\ status = -1

NextIO ==
    \/ MkBase
    \/ RmBase
    \/ CreateEntry
    \/ RemoveEntry
    \/ PutArtifact
    \/ RemoveArtifact
    \/ ChmodBase
    \/ ChmodDir
    \/ Resolve
    \/ CheckExtensionInstalled

SpecIO == InitIO /\ [][NextIO]_vars

\* The helpers on a directory whose reads succeed.
NextHelpers ==
    \/ MkBase
    \/ RmBase
    \/ CreateEntry
    \/ RemoveEntry
    \/ PutArtifact
    \/ RemoveArtifact
    \/ CheckExtensionInstalled
    \/ GetExtensionVersion
    \/ GetDuckdbConnection

SpecHelpers == Init /\ [][NextHelpers]_vars

\* One run of the smoke-test script.
NextSmoke ==
    \/ SmokeStart
    \/ SmokeLoad
    \/ SmokeTest
    \/ SmokeListFunctions
    \/ SmokeSummary

SpecSmoke == Init /\ [][NextSmoke]_vars

\* ------------------------------------------------------------------------
\* Properties of the resolver (specification Spec)
\* ------------------------------------------------------------------------
\* a < b for strings, stated without recursion: at the first position where
\* they differ a has the lesser code point, or a ends there and b does not.
LexLess(a, b) ==
    \E i \in 1..Len(b) :
       /\ \A j \in 1..(i - 1) : j <= Len(a) /\ a[j] = b[j]
       /\ (i > Len(a) \/ a[i] < b[i])

IsVersionDir(f, n) ==
    f.kids[n].kind = "dir" /\ n[1] = 118

\* The 'v'-prefixed subdirectories that have an entry named as the artifact.
Candidates(f) ==
    {n \in Names : IsVersionDir(f, n) /\ f.kids[n].art # "absent"}

Greatest(S) == CHOOSE x \in S : \A y \in S : y = x \/ LexLess(y, x)

C2_AbsentBaseNotFound ==
    (trace.fresh /\ fs.base = "absent") =>
        /\ found = None
        /\ ~trace.listed
        /\ trace.probed = <<>>

C2_Witness ==
    trace.fresh /\ fs.base = "absent" /\ found = None

\* C3: entries that are not directories or whose name does not begin with
\* 'v' are never probed and never returned, and the outcome of the call is
\* the same whatever such entries are added, removed or filled.
OtherEntries == {NoEntry, FileEntry} \cup {DirEntry(a, TRUE) : a \in ArtKinds}

Irrelevant(n, e) == e.kind # "dir" \/ n[1] # 118

C3_OthersIgnored ==
    trace.fresh =>
        /\ \A i \in 1..Len(trace.probed) : IsVersionDir(fs, trace.probed[i])
        /\ found.kind = "path" => IsVersionDir(fs, found.dir)
        /\ found.kind # "error"
        /\ \A n \in Names :
              Irrelevant(n, fs.kids[n]) =>
                 \A e \in OtherEntries :
                    Irrelevant(n, e) =>
                       Result(FindExtensionBinary(WithKid(fs, n, e))) = found

C3_Witness ==
    /\ trace.fresh
    /\ fs.kids[BUILD] = DirEntry("file", TRUE)
    /\ fs.kids[V2_0_0] = FileEntry
    /\ found = Join(V1_9_0, ARTIFACT)

\* C7: every returned path is base/<tag>/stps.duckdb_extension with <tag> a
\* 'v'-prefixed subdirectory of base whose artifact entry is a file.
C7_ArtifactIsFile ==
    (trace.fresh /\ found.kind = "path") =>
        /\ found.file = ARTIFACT
        /\ IsVersionDir(fs, found.dir)
        /\ fs.kids[found.dir].art = "file"

\* C8: every call returns what the directory holds at the time of the
\* call, whatever an earlier call returned, and a call repeated on an
\* unchanged directory returns the same again.
Expected(f) ==
    IF f.base = "absent" \/ Candidates(f) = {} THEN None
    ELSE Join(Greatest(Candidates(f)), ARTIFACT)

IsResolveStep == fs' = fs /\ trace'.fresh

C8_Stateless ==
    [][IsResolveStep =>
          /\ found' = Expected(fs')
          /\ trace.fresh => found' = found]_vars

C8_Witness ==
    /\ trace.fresh
    /\ found = Join(V1_4_3, ARTIFACT)
    /\ fs.kids[V2_0_0] = DirEntry("absent", TRUE)

\* ------------------------------------------------------------------------
\* Properties of the resolver when reads fail (specification SpecIO)
\* ------------------------------------------------------------------------
ListFailed(f) == f.base = "dir" /\ f.access = "noread"

ProbeFailed(f, probed) ==
    \E i \in 1..Len(probed) :
       f.kids[probed[i]].kind = "dir" /\ ~f.kids[probed[i]].open

Readable(f) ==
    /\ f.access = "ok"
    /\ \A n \in Names : IsVersionDir(f, n) => f.kids[n].open

\* C6: a call during which listing the base directory or testing an
\* artifact path failed ends in the error: _find_extension_binary does not
\* return None, and check_extension_installed does not return False, when
\* a read it made has failed.
C6_FailureSurfaced ==
    /\ (trace.fresh /\ (ListFailed(fs) \/ ProbeFailed(fs, trace.probed)))
          => found.kind = "error"
    /\ (trace.fresh /\ found = None /\ fs.base = "dir") => Readable(fs)
    /\ (installed = Bool(FALSE) /\ fs.base = "dir") => Readable(fs)

\* ------------------------------------------------------------------------
\* Properties of the helpers (specification SpecHelpers)
\* ------------------------------------------------------------------------
NotInstalled(f) == f.base = "absent" \/ Candidates(f) = {}

\* C4: get_duckdb_connection raises FileNotFoundError exactly when the base
\* directory is absent or no 'v'-prefixed subdirectory contains the
\* artifact, and then it has issued no LOAD and returned no connection; the
\* fallback path v1.4.3 is never loaded.
C4_NotInstalledRaises ==
    conn.kind # "nocall" =>
        /\ (conn.kind = "FileNotFoundError") <=> NotInstalled(fs)
        /\ NotInstalled(fs) =>
              /\ conn.loads = <<>>
              /\ conn.handle = NoHandle

C4_Witness ==
    /\ conn.kind = "FileNotFoundError"
    /\ fs.kids[V1_4_3] = DirEntry("absent", TRUE)
    /\ fs.kids[BUILD] = DirEntry("file", TRUE)

\* C5: when installed, exactly one LOAD is issued, for the path of the
\* greatest candidate; a LOAD the driver rejects with IOException raises
\* IOException naming that path and returns nothing; after a LOAD that
\* succeeds the connection it was issued on is returned.
C5_LoadsResolvedPath ==
    (conn.kind # "nocall" /\ ~NotInstalled(fs)) =>
        /\ Len(conn.loads) = 1
        /\ conn.loads[1].path = Join(Greatest(Candidates(fs)), ARTIFACT)
        /\ conn.drv = "IOException" =>
              /\ conn.kind = "IOException"
              /\ conn.msg = conn.loads[1].path
              /\ conn.handle = NoHandle
        /\ conn.drv = "ok" =>
              /\ conn.kind = "returned"
              /\ conn.handle # NoHandle
              /\ conn.handle = conn.loads[1].on

C5_Witness ==
    /\ conn.kind = "IOException"
    /\ conn.msg = Join(V1_9_0, ARTIFACT)
    /\ V1_10_0 \in Candidates(fs)

\* C9: on an unchanged directory check_extension_installed() is True iff
\* get_extension_version() is not None iff get_duckdb_connection() does not
\* raise FileNotFoundError, and the version is the name of the directory
\* of the path given to LOAD.
C9_HelpersAgree ==
    (installed.kind = "bool" /\ version.kind # "nocall"
        /\ conn.kind # "nocall") =>
        /\ installed.value <=> (version # None)
        /\ installed.value <=> (conn.kind # "FileNotFoundError")
        /\ installed.value =>
              /\ version.kind = "str"
              /\ Len(conn.loads) = 1
              /\ version.value = conn.loads[1].path.dir

C9_Witness ==
    /\ installed = Bool(TRUE)
    /\ version = [kind |-> "str", value |-> V2_0_0]
    /\ conn.kind = "returned"
    /\ V1_4_3 \in Candidates(fs)

\* ------------------------------------------------------------------------
\* Properties of the smoke-test script (specification SpecSmoke)
\* ------------------------------------------------------------------------
CountOf(v) == Cardinality({i \in 1..Len(report) : report[i] = v})

\* C10: once the extension is loaded every check is run and counted once,
\* as passed or as failed, a raising query counting as failed; at the
\* summary passed + failed is the number of checks, which is not zero; the
\* script returns 0 iff failed is 0 and 1 otherwise; a missing file or a
\* failed LOAD exits with status 1 before any check.
C10_EveryCheckCounted ==
    /\ pc = "tests" =>
          /\ Len(report) = idx
          /\ passed + failed = idx
    /\ pc \in {"tests", "summary", "returned"} =>
          /\ passed = CountOf("PASSED")
          /\ failed = CountOf("FAILED") + CountOf("ERROR")
    /\ pc \in {"summary", "returned"} =>
          /\ idx = Len(Tests)
          /\ Len(report) = Len(Tests)
          /\ passed + failed = Len(Tests)
          /\ passed + failed > 0
    /\ pc = "returned" =>
          /\ status \in {0, 1}
          /\ (status = 0) <=> (failed = 0)
    /\ pc = "exited" =>
          /\ status = 1
          /\ idx = 0
          /\ report = <<>>

C10_Witness ==
    /\ pc = "returned"
    /\ report = <<"ERROR", "PASSED", "FAILED", "PASSED">>
    /\ passed = 2 /\ failed = 2
    /\ status = 1

====
